---- MODULE Spec2Model ----
(***************************************************************************)
(* create-fde-app: a model of one scaffolding run.                         *)
(*                                                                         *)
(* The run is sequential (every call is awaited), so the model is one      *)
(* process whose position is pc.  Three entry points are modelled, the     *)
(* three the repository itself exercises: the command-line action          *)
(* (lib/cli.js), processAugmentations called directly and                  *)
(* injectDeployConfig called directly (as the unit tests do).              *)
(*                                                                         *)
(* Strings that the code parses are sequences of atoms: the token          *)
(* database:postgres is <<"database", ":", "postgres">>, and a string      *)
(* value such as a category or a type is again a sequence of atoms.        *)
(***************************************************************************)
EXTENDS Integers, Sequences, FiniteSets, TLC

VARIABLES
    pc,             \* position of the run
    entry,          \* which entry point was called: "cli", "aug", "inject"
    projectDetails, \* the object promptProjectDetails returns / the caller passes
    modules,        \* augmentations-processor.js:6, the four module-level handler slots
    augIdx,         \* index of the next token of the for..of loop
    calls,          \* history: invocations of handlers and stages, in order
    logged,         \* history: logger.warn / logger.error lines, in order
    fs,             \* the project tree: path -> content tag
    spinner,        \* logger.spinner: 0 is null, n > 0 is the n-th ora instance
    spinning,       \* ora instances started and not yet stopped
    started,        \* number of ora instances created so far
    error,          \* the error being thrown / the rejection of the entry point
    exitCode,       \* "none" while running, then 0 or 1
    env,            \* process.env, the command line and the working directory of the run
    rendered,       \* the text of the files the injector renders: path -> lines
    processors      \* postProcessorLoader.processors: framework -> processor

vars == <<pc, entry, projectDetails, modules, augIdx, calls, logged, fs,
          spinner, spinning, started, error, exitCode, env, rendered, processors>>

-----------------------------------------------------------------------------
(* Bounds *)

\* longest augmentation list handed to processAugmentations directly
MaxAugs == 2

\* longest augmentation list of a command-line run
MaxCliAugs == 1

-----------------------------------------------------------------------------
(* Strings *)

Str(a) == <<a>>

\* JavaScript's undefined, as a value no string equals
UNDEFINED == <<"\\undefined">>

\* no error is being thrown
NoError == <<"none">>

RECURSIVE IndexOfFrom(_, _, _)
\* first position >= i of atom c in s, 0 when absent
IndexOfFrom(s, c, i) ==
    IF i > Len(s) THEN 0
    ELSE IF s[i] = c THEN i
    ELSE IndexOfFrom(s, c, i + 1)

RECURSIVE Split(_, _)
\* String.prototype.split(sep): every separator cuts; no separator gives <<s>>
Split(s, sep) ==
    LET k == IndexOfFrom(s, sep, 1)
    IN  IF k = 0 THEN <<s>>
        ELSE <<SubSeq(s, 1, k - 1)>> \o Split(SubSeq(s, k + 1, Len(s)), sep)

\* array destructuring [a, b] = arr: a missing element is undefined
At(arr, i) == IF i <= Len(arr) THEN arr[i] ELSE UNDEFINED

SeqsUpTo(S, n) == UNION { [1..k -> S] : k \in 0..n }

-----------------------------------------------------------------------------
(* Augmentation tokens the runs are given *)

Tokens ==
    { <<"database", ":", "postgres">>,
      <<"auth", ":", "nextauth">>,
      <<"monitoring", ":", "datadog">>,
      <<"utility", ":", "cors">>,
      <<"bogus", ":", "thing">>,
      <<"database", ":", "postgres", ":", "extra">>,
      <<"auth", ":", "oracle">>,
      <<"utility", ":", "constructor">> }

KnownCategories == { Str("database"), Str("auth"), Str("monitoring"), Str("utility") }

Frameworks == { "nextjs", "nuxtjs", "remix" }

ProjectNames == { "my-app", "web" }

\* path.join(process.cwd(), projectName)
ProjectPath(name) == <<"cwd", name>>

-----------------------------------------------------------------------------
(* Category dispatch tables: augmentations/<category>/index.js *)

databaseSetups ==
    ("postgres" :> "setupPostgres") @@ ("mysql" :> "setupMySQL") @@
    ("mongodb" :> "setupMongoDB")

authSetups ==
    ("nextauth" :> "setupNextAuth") @@ ("auth0" :> "setupAuth0") @@
    ("cognito" :> "setupCognito")

monitoringSetups == ("datadog" :> "setupDatadog")

utilitySetups ==
    ("sentry" :> "setupSentry") @@ ("logging" :> "setupLogging") @@
    ("rate-limiting" :> "setupRateLimiting") @@ ("cors" :> "setupCORS")

\* the tables are plain object literals: a key they do not hold is looked up
\* on Object.prototype, where constructor (a function) is found
ObjectPrototype == ("constructor" :> "Object")

NoFunction == "undefined"

\* table[type]
Lookup(table, type) ==
    IF Len(type) = 1 /\ type[1] \in DOMAIN table THEN table[type[1]]
    ELSE IF Len(type) = 1 /\ type[1] \in DOMAIN ObjectPrototype
         THEN ObjectPrototype[type[1]]
    ELSE NoFunction

\* the setup functions that begin by installing packages (execSync of
\* npm install / yarn add in the project directory), and the command
SetupInstalls ==
    ("setupPostgres" :> "npm install") @@ ("setupNextAuth" :> "yarn add") @@
    ("setupDatadog" :> "yarn add")

\* the four setups of augmentations-processor.js and the table each consults
SetupsOf(handler) ==
    CASE handler = "setupDatabase"   -> databaseSetups
      [] handler = "setupAuth"       -> authSetups
      [] handler = "setupMonitoring" -> monitoringSetups
      [] handler = "setupUtility"    -> utilitySetups

Handlers == { "setupDatabase", "setupAuth", "setupMonitoring", "setupUtility" }

\* import order of loadAugmentationModules
ModuleOrder == << "setupDatabase", "setupAuth", "setupMonitoring", "setupUtility" >>

\* switch (category) of processAugmentation: the handler of a case, "default" otherwise
MutSwitchFallsThrough(category) ==
    CASE category = Str("database")   -> "setupDatabase"
      [] category = Str("auth")       -> "setupAuth"
      [] category = Str("monitoring") -> "setupMonitoring"
      [] category = Str("utility")    -> "setupUtility"
      [] OTHER                        -> "setupUtility"

SwitchCategory(category) ==
    CASE category = Str("database")   -> "setupDatabase"
      [] category = Str("auth")       -> "setupAuth"
      [] category = Str("monitoring") -> "setupMonitoring"
      [] category = Str("utility")    -> "setupUtility"
      [] OTHER                        -> "default"

\* const [category, type] = augmentation.split(':')
ParseAugmentation(augmentation) ==
    LET parts == Split(augmentation, ":")
    IN  [category |-> At(parts, 1), type |-> At(parts, 2)]

\* the catch of processAugmentation: what is still thrown after it
MutNoCatch(thrown) == thrown

CatchAugmentation(thrown) == NoError

-----------------------------------------------------------------------------
(* Configuration tables and the project details *)

DeployTargets == { "aws-apprunner", "vercel", "gcp-cloudrun" }

\* a deploy target that is none of the three (the unit tests use this one)
UnsupportedTarget == "unsupported-target"

\* a framework that is none of the three
UnsupportedFramework == "svelte"

Features == { "docker", "github-actions", "terraform" }

\* an object that is undefined: reading a property of it throws a TypeError
Undefined == [ defined |-> FALSE, terraform |-> FALSE ]

\* deployTargetsConfig[target]: the terraform flag of each configured target
DeployTargetsConfig(target) ==
    CASE target = "vercel"        -> [ defined |-> TRUE, terraform |-> FALSE ]
      [] target = "aws-apprunner" -> [ defined |-> TRUE, terraform |-> TRUE ]
      [] target = "gcp-cloudrun"  -> [ defined |-> TRUE, terraform |-> TRUE ]
      [] OTHER                    -> Undefined

\* frameworksConfig[framework]: defined for the three frameworks only
FrameworksConfig(fw) == [ defined |-> fw \in Frameworks ]

\* { ...deployTargetsConfig[deployTarget], ...deploymentConfig }: spreading
\* undefined gives an empty object, whose terraform property is falsy
SpreadConfig(cfg) == [ defined |-> TRUE, terraform |-> cfg.defined /\ cfg.terraform ]

\* a property an object does not have
Missing == "undefined"

\* the answers of promptDeploymentConfig(deployTarget): a region for
\* aws-apprunner, a project id and a region for gcp-cloudrun, {} otherwise
PromptDeploymentConfig(target) ==
    CASE target = "aws-apprunner" ->
           [ awsRegion |-> "eu-west-1", gcpProjectId |-> Missing, gcpRegion |-> Missing ]
      [] target = "gcp-cloudrun" ->
           [ awsRegion |-> Missing, gcpProjectId |-> "my-project",
             gcpRegion |-> "europe-west1" ]
      [] OTHER ->
           [ awsRegion |-> Missing, gcpProjectId |-> Missing, gcpRegion |-> Missing ]

\* CI mode asks nothing: the deploy configuration has none of the three keys
NoDeploymentConfig ==
    [ awsRegion |-> Missing, gcpProjectId |-> Missing, gcpRegion |-> Missing ]

\* the object promptProjectDetails returns: in CI mode from the environment,
\* otherwise from the options and the answers (--skip-install is not given).
\* Neither branch sets monorepo or monorepoPath: both are undefined, so
\* monorepo is falsy.
PromptResult(ci, name, fw, target, feats, augs, git) ==
    [ projectName |-> name,
      framework |-> fw,
      deployTarget |-> target,
      features |-> feats,
      augmentations |-> augs,
      initGit |-> IF ci THEN FALSE ELSE git,
      skipInstall |-> ci,
      monorepo |-> FALSE,
      monorepoPath |-> "undefined",
      frameworkConfig |-> FrameworksConfig(fw),
      deployConfig |-> IF ci THEN DeployTargetsConfig(target) @@ NoDeploymentConfig
                       ELSE SpreadConfig(DeployTargetsConfig(target))
                            @@ PromptDeploymentConfig(target) ]

\* process.env.CI === 'true'; the project name given as argument; --monorepo
\* or CREATE_FDE_APP_MONOREPO=true given; join(process.cwd(), name) exists
Env(ci, nameArg, monorepoAsked, dirExists) ==
    [ CI |-> ci, nameArg |-> nameArg, monorepo |-> monorepoAsked,
      dirExists |-> dirExists ]

NoEnv == Env(FALSE, FALSE, FALSE, FALSE)

-----------------------------------------------------------------------------
(* State *)

NoDetails == PromptResult(TRUE, "", "", "", {}, <<>>, FALSE)

EmptyTree == [p \in {} |-> ""]

Init ==
    /\ pc = "idle"
    /\ entry = "none"
    /\ projectDetails = NoDetails
    /\ modules = [h \in Handlers |-> FALSE]
    /\ augIdx = 0
    /\ calls = <<>>
    /\ logged = <<>>
    /\ fs = EmptyTree
    /\ spinner = 0
    /\ spinning = {}
    /\ started = 0
    /\ error = NoError
    /\ exitCode = "none"
    /\ env = NoEnv
    /\ rendered = EmptyTree
    /\ processors = EmptyTree

projectPath == ProjectPath(projectDetails.projectName)

-----------------------------------------------------------------------------
(* lib/augmentations-processor.js *)

\* where control goes when processAugmentations resolves
AugReturn == IF entry = "aug" THEN "done" ELSE "aug_done"

\* where control goes when processAugmentations rejects
AugReject == IF entry = "aug" THEN "done" ELSE "process_catch"

\* processAugmentations(projectPath, framework, augmentations) called by a module user
CallProcessAugmentations ==
    /\ pc = "idle"
    /\ \E name \in ProjectNames, fw \in Frameworks, augs \in SeqsUpTo(Tokens, MaxAugs) :
         projectDetails' = PromptResult(TRUE, name, fw, "vercel", {}, augs, FALSE)
    /\ entry' = "aug"
    /\ pc' = "aug_load"
    /\ UNCHANGED <<processors, modules, augIdx, calls, logged, fs, spinner, spinning, started,
                   error, exitCode, env, rendered>>

\* the handler slots assigned when the import of position failAt rejects
\* (0: none rejects)
LoadedUpTo(failAt) ==
    [h \in Handlers |->
        \/ modules[h]
        \/ \E k \in 1..Len(ModuleOrder) :
              /\ ModuleOrder[k] = h
              /\ (failAt = 0 \/ k < failAt)]

\* await loadAugmentationModules() in processAugmentations: a rejected
\* import rejects processAugmentations, otherwise the loop is entered
MutLoadFailureIgnored(failAt) == "loop"

AfterLoad(failAt) == IF failAt = 0 THEN "loop" ELSE "reject"

\* processAugmentations up to its loop: await loadAugmentationModules()
LoadAugmentationModules ==
    /\ pc = "aug_load"
    /\ \E failAt \in 0..Len(ModuleOrder) :
         /\ modules' = LoadedUpTo(failAt)
         /\ IF AfterLoad(failAt) = "loop"
            THEN /\ pc' = "aug_loop"
                 /\ augIdx' = 1
                 /\ error' = error
            ELSE /\ pc' = AugReject
                 /\ augIdx' = augIdx
                 /\ error' = <<"ImportError", ModuleOrder[failAt]>>
    /\ UNCHANGED <<processors, env, rendered,
                   entry, projectDetails, calls, logged, fs, spinner, spinning,
                   started, exitCode>>

\* one category setup, e.g. setupDatabase(projectPath, framework, type):
\* the calls it makes and what it throws; setupOk is whether the setup
\* function it finds resolves
CategorySetup(handler, idx, type, setupOk) ==
    LET fn == Lookup(SetupsOf(handler), type)
        thrown ==
            IF fn = NoFunction THEN <<"Error", "Unknown type", handler, type>>
            ELSE IF fn = "Object" \/ setupOk THEN NoError
            ELSE <<"Error", "setup failed", fn>>
        outcome == IF thrown = NoError THEN "resolved" ELSE "rejected"
    IN  [ calls |->
            <<  <<"handler", handler, idx, projectPath, projectDetails.framework,
                  type, outcome>> >>
            \o (IF fn = NoFunction THEN <<>>
                ELSE << <<"setup", fn, idx, projectPath,
                          projectDetails.framework>> >>)
            \o (IF fn \in DOMAIN SetupInstalls
                THEN << <<"exec", SetupInstalls[fn], fn>> >>
                ELSE <<>>),
          thrown |-> thrown ]

\* the try block of processAugmentation for the token at idx
TryAugmentation(idx, setupOk) ==
    LET augmentation == projectDetails.augmentations[idx]
        parsed == ParseAugmentation(augmentation)
        handler == SwitchCategory(parsed.category)
    IN  IF handler = "default"
        THEN [ calls |-> <<>>,
               logs |-> << <<"warn", "Unknown augmentation category",
                             parsed.category>> >>,
               thrown |-> NoError ]
        ELSE IF ~modules[handler]
        THEN [ calls |-> <<>>, logs |-> <<>>,
               thrown |-> <<"TypeError", handler, "is not a function">> ]
        ELSE LET r == CategorySetup(handler, idx, parsed.type, setupOk)
             IN  [ calls |-> r.calls, logs |-> <<>>, thrown |-> r.thrown ]

\* one iteration of the loop of processAugmentations: processAugmentation
ProcessAugmentation ==
    /\ pc = "aug_loop"
    /\ augIdx <= Len(projectDetails.augmentations)
    /\ \E setupOk \in BOOLEAN :
         LET r == TryAugmentation(augIdx, setupOk)
             escaped == CatchAugmentation(r.thrown)
         IN  /\ calls' = calls \o r.calls
             /\ logged' = logged \o r.logs \o
                   (IF r.thrown # NoError /\ escaped = NoError
                    THEN << <<"error", "Failed to add",
                              projectDetails.augmentations[augIdx], r.thrown>> >>
                    ELSE <<>>)
             /\ IF escaped = NoError
                THEN /\ augIdx' = augIdx + 1
                     /\ pc' = pc
                     /\ error' = error
                ELSE /\ augIdx' = augIdx
                     /\ pc' = AugReject
                     /\ error' = escaped
    /\ UNCHANGED <<processors, env, rendered,
                   entry, projectDetails, modules, fs, spinner, spinning, started,
                   exitCode>>

\* the loop of processAugmentations is over: the promise resolves
ProcessAugmentationsReturn ==
    /\ pc = "aug_loop"
    /\ augIdx > Len(projectDetails.augmentations)
    /\ pc' = AugReturn
    /\ UNCHANGED <<processors, env, rendered,
                   entry, projectDetails, modules, augIdx, calls, logged, fs,
                   spinner, spinning, started, error, exitCode>>

NextAug ==
    \/ CallProcessAugmentations
    \/ LoadAugmentationModules
    \/ ProcessAugmentation
    \/ ProcessAugmentationsReturn

\* processAugmentations called directly
SpecAug == Init /\ [][NextAug]_vars

-----------------------------------------------------------------------------
(* lib/utils/logger.js: the spinner *)

Spin == [ spinner |-> spinner, spinning |-> spinning, started |-> started ]

\* startSpinner: this.spinner = ora(message).start()
StartSpinner(sp) ==
    [ spinner |-> sp.started + 1,
      spinning |-> sp.spinning \cup { sp.started + 1 },
      started |-> sp.started + 1 ]

\* stopSpinner: succeed / fail the current spinner, if any, and forget it
StopSpinner(sp) ==
    IF sp.spinner # 0
    THEN [ spinner |-> 0, spinning |-> sp.spinning \ { sp.spinner },
           started |-> sp.started ]
    ELSE sp

SetSpin(sp) ==
    /\ spinner' = sp.spinner
    /\ spinning' = sp.spinning
    /\ started' = sp.started

-----------------------------------------------------------------------------
(* The project tree *)

Dir == <<"dir">>

\* writeFile / mkdir: the path exists afterwards, with this content
Put(tree, path, content) ==
    [p \in DOMAIN tree \cup {path} |-> IF p = path THEN content ELSE tree[p]]

RECURSIVE PutAll(_, _)
PutAll(tree, ws) ==
    IF ws = <<>> THEN tree
    ELSE PutAll(Put(tree, Head(ws)[1], Head(ws)[2]), Tail(ws))

\* the writes of ws that take effect when write number failAt rejects
\* (0: none rejects)
Written(ws, failAt) == IF failAt = 0 THEN ws ELSE SubSeq(ws, 1, failAt - 1)

\* history of the writes attempted
WriteEvents(ws, failAt) ==
    [i \in 1..(IF failAt = 0 THEN Len(ws) ELSE failAt) |->
        <<"write", ws[i][1], IF i = failAt THEN "failed" ELSE "ok">>]

\* the rejection of write number failAt: an awaited write that rejects
\* throws out of the step
MutSwallowWriteError(ws, failAt) == NoError

WriteError(ws, failAt) ==
    IF failAt = 0 THEN NoError ELSE <<"WriteError", ws[failAt][1]>>

-----------------------------------------------------------------------------
(* lib/deploy-injector.js *)

\* where control goes when injectDeployConfig resolves / rejects
InjectReturn == IF entry = "inject" THEN "done" ELSE "cli_success"
InjectReject == IF entry = "inject" THEN "done" ELSE "cli_catch"

\* the monorepo and monorepoPath properties a caller of injectDeployConfig
\* passes: none, apps/, or the empty path
MonorepoSettings ==
    { [ monorepo |-> FALSE, monorepoPath |-> "undefined" ],
      [ monorepo |-> TRUE,  monorepoPath |-> "apps/" ],
      [ monorepo |-> TRUE,  monorepoPath |-> "" ] }

\* the project names a caller of injectDeployConfig passes; "." is the
\* current directory
InjectNames == { "web", "my-app", "." }

\* injectDeployConfig(projectDetails) called by a module user, with project
\* details as promptProjectDetails builds them, and the monorepo properties
\* that addDockerConfig and addGitHubActions read
CallInjectDeployConfig ==
    /\ pc = "idle"
    /\ \E ci \in BOOLEAN, name \in InjectNames, fw \in Frameworks,
          target \in DeployTargets \cup {UnsupportedTarget},
          feats \in SUBSET Features, mono \in MonorepoSettings :
         /\ projectDetails' =
               [ PromptResult(ci, name, fw, target, feats, <<>>, FALSE)
                   EXCEPT !.monorepo = mono.monorepo,
                          !.monorepoPath = mono.monorepoPath ]
         /\ env' = Env(ci, TRUE, mono.monorepo, FALSE)
    /\ entry' = "inject"
    /\ pc' = "inject"
    /\ UNCHANGED <<processors, modules, augIdx, calls, logged, fs, spinner, spinning, started,
                   error, exitCode, rendered>>

\* injectDeployConfig up to its try block
InjectStart ==
    /\ pc = "inject"
    /\ SetSpin(StartSpinner(Spin))
    /\ calls' = Append(calls, <<"stage", "injectDeployConfig", "start">>)
    /\ pc' = "inj_docker"
    /\ UNCHANGED <<processors, env, rendered,
                   entry, projectDetails, modules, augIdx, logged, fs, error,
                   exitCode>>

\* the try/catch chain of addDockerConfig over the two template reads:
\* which text becomes the Dockerfile, and what is thrown
MutNoInlineFallback(frameworkReadable, commonReadable) ==
    IF frameworkReadable THEN [ from |-> "framework", thrown |-> NoError ]
    ELSE IF commonReadable THEN [ from |-> "common", thrown |-> NoError ]
    ELSE [ from |-> "none", thrown |-> <<"ReadError", "docker/common/Dockerfile.base">> ]

ResolveDockerTemplate(frameworkReadable, commonReadable) ==
    IF frameworkReadable THEN [ from |-> "framework", thrown |-> NoError ]
    ELSE IF commonReadable THEN [ from |-> "common", thrown |-> NoError ]
    ELSE [ from |-> "inline", thrown |-> NoError ]

\* the template reads addDockerConfig makes
DockerReads(frameworkReadable, commonReadable) ==
    << <<"read", "docker/framework/Dockerfile", frameworkReadable>> >>
    \o (IF frameworkReadable THEN <<>>
        ELSE << <<"read", "docker/common/Dockerfile.base", commonReadable>> >>)

\* the two writes that end addDockerConfig
DockerWrites(from) ==
    << <<"Dockerfile", <<"Dockerfile", from>>>>,
       <<".dockerignore", <<"dockerignore">>>> >>

\* A Dockerfile is a sequence of lines, a line the sequence of its words
\* (runs of blanks count as one separator).

\* the inline fallback text of addDockerConfig
InlineDockerfile ==
    << <<"#", "Build", "stage">>,
       <<"FROM", "node:20-alpine", "AS", "builder">>,
       <<"WORKDIR", "/app">>,
       <<"COPY", "package*.json", "./">>,
       <<"RUN", "yarn", "install", "--frozen-lockfile">>,
       <<"COPY", ".", ".">>,
       <<"RUN", "yarn", "build">>,
       <<>>,
       <<"#", "Production", "stage">>,
       <<"FROM", "node:20-alpine", "AS", "runner">>,
       <<"WORKDIR", "/app">>,
       <<"ENV", "NODE_ENV=production">>,
       <<"ENV", "PORT=3000">>,
       <<"COPY", "--from=builder", "/app/node_modules", "./node_modules">>,
       <<"COPY", "--from=builder", "/app/package*.json", "./">>,
       <<"COPY", "--from=builder", "/app/build", "./build">>,
       <<"EXPOSE", "3000">>,
       <<"CMD", "[\"yarn\",", "\"start\"]">> >>

\* template files of deploy-templates/docker that readFile may return
DockerTemplates ==
    { << <<"FROM", "node:20-alpine", "AS", "builder">>,
         <<"COPY", "package*.json", "./">>,
         <<"COPY", ".", ".">>,
         <<"FROM", "node:20-alpine", "AS", "runner">>,
         <<"COPY", "--from=builder", "/app/.next", "./.next">> >>,
      << <<"FROM", "node:20-alpine">>,
         <<"COPY", "package.json", "yarn.lock", "./">>,
         <<"COPY", "public", "./public">>,
         <<"COPY", "--from=deps", "/app/node_modules", "./node_modules">> >> }

\* words that begin with --from
FromFlags == { "--from=builder", "--from=deps" }

\* `${monorepoPath}${projectName}`
AppPath(details) == details.monorepoPath \o details.projectName

\* the replace callback over /^COPY\s+(?!--from)(.+?)\s+(.+)$/gm for one line:
\* the lazy first group is the first word, the second group the rest of the line
RewriteCopy(line, appPath) ==
    IF Len(line) >= 3 /\ line[1] = "COPY" /\ line[2] \notin FromFlags
    THEN LET source == line[2]
             dest == SubSeq(line, 3, Len(line))
         IN  IF source = "." THEN <<"COPY", appPath \o "/">> \o dest
             ELSE <<"COPY", appPath \o "/" \o source>> \o dest
    ELSE line

\* the comment lines put at the top of a monorepo Dockerfile
MonorepoHeader(appPath) ==
    << <<"#", "Monorepo", "Dockerfile", "-", "Build", "context", "should", "be",
         "repository", "root">>,
       <<"#", "App", "path:", appPath>>,
       <<>> >>

\* if (monorepo) { ... }: the Dockerfile text that is written
MutAlwaysRewriteDockerfile(text, details) ==
    MonorepoHeader(AppPath(details))
    \o [i \in 1..Len(text) |-> RewriteCopy(text[i], AppPath(details))]

RenderDockerfile(text, details) ==
    IF details.monorepo
    THEN MonorepoHeader(AppPath(details))
         \o [i \in 1..Len(text) |-> RewriteCopy(text[i], AppPath(details))]
    ELSE text

\* step 1 of injectDeployConfig: if (features.includes('docker')) addDockerConfig
AddDockerConfig ==
    /\ pc = "inj_docker"
    /\ IF "docker" \in projectDetails.features
       THEN \E frameworkReadable, commonReadable \in BOOLEAN, failAt \in 0..2,
               template \in DockerTemplates :
              LET r == ResolveDockerTemplate(frameworkReadable, commonReadable)
                  ws == DockerWrites(r.from)
                  source == IF r.from = "inline" THEN InlineDockerfile ELSE template
                  thrown == IF r.thrown # NoError THEN r.thrown
                            ELSE WriteError(ws, failAt)
              IN  /\ calls' = calls \o << <<"step", "addDockerConfig">> >>
                        \o DockerReads(frameworkReadable, commonReadable)
                        \o (IF r.thrown # NoError THEN <<>>
                            ELSE WriteEvents(ws, failAt))
                  /\ logged' = logged \o
                        (IF frameworkReadable THEN <<>>
                         ELSE << <<"warn", "No framework-specific Dockerfile found">> >>)
                  /\ fs' = IF r.thrown # NoError THEN fs
                           ELSE PutAll(fs, Written(ws, failAt))
                  /\ rendered' =
                        IF r.thrown # NoError \/ failAt = 1 THEN rendered
                        ELSE Put(rendered, "Dockerfile",
                                 [ source |-> source,
                                   text |-> RenderDockerfile(source, projectDetails) ])
                  /\ error' = thrown
                  /\ pc' = IF thrown = NoError THEN "inj_gha" ELSE "inj_catch"
       ELSE /\ pc' = "inj_gha"
            /\ UNCHANGED <<calls, logged, fs, error, rendered>>
    /\ UNCHANGED <<processors, env, entry, projectDetails, modules, augIdx, spinner, spinning,
                   started, exitCode>>

\* const workflowTemplates = { ... } of addGitHubActions
workflowTemplates ==
    ("aws-apprunner" :> "aws-apprunner.yml") @@ ("vercel" :> "vercel-ci.yml") @@
    ("gcp-cloudrun" :> "gcp-cloudrun.yml")

NoTemplate == "undefined"

\* workflowTemplates[deployTarget]
WorkflowTemplate(target) ==
    IF target \in DOMAIN workflowTemplates THEN workflowTemplates[target]
    ELSE NoTemplate

WorkflowDirs ==
    << <<".github", Dir>>, <<".github/workflows", Dir>> >>

\* monorepo ? `${projectName}-deploy.yml` : 'deploy.yml'
MutSharedWorkflowFileName(details) == "deploy.yml"

WorkflowFileName(details) ==
    IF details.monorepo THEN details.projectName \o "-deploy.yml" ELSE "deploy.yml"

\* join(workflowDir, workflowFileName); promptProjectDetails sets no monorepo
\* property, so a command-line run always takes the second name
WorkflowFile == ".github/workflows/" \o WorkflowFileName(projectDetails)

\* A workflow is a sequence of lines; a line has its indentation, whether a
\* "- " opens it, its key (empty for a line of a script block) and the words
\* of its value.
YamlLine(indent, dash, key, value) ==
    [ indent |-> indent, dash |-> dash, key |-> key, value |-> value ]

BlankLine == YamlLine(0, FALSE, "", <<>>)

\* template files of deploy-templates/github-actions that readFile may return
WorkflowTemplateTexts ==
    { << YamlLine(0, FALSE, "name:", <<"Deploy", "to", "Cloud">>),
         YamlLine(0, FALSE, "on:", <<>>),
         YamlLine(2, FALSE, "push:", <<>>),
         YamlLine(4, FALSE, "branches:", <<"[main]">>),
         YamlLine(4, FALSE, "steps:", <<>>),
         YamlLine(6, TRUE,  "name:", <<"Build">>),
         YamlLine(8, FALSE, "run:", <<"yarn", "build">>),
         YamlLine(6, TRUE,  "name:", <<"Image">>),
         YamlLine(8, FALSE, "run:", <<"|">>),
         YamlLine(10, FALSE, "", <<"docker", "build", "-t", "{{ projectName }}", ".">>),
         YamlLine(10, FALSE, "", <<"gcloud", "run", "deploy", "--project",
                                   "{{ gcpProjectId }}", "--region", "{{ gcpRegion }}">>) >>,
      << YamlLine(0, FALSE, "name:", <<"CI">>),
         YamlLine(0, FALSE, "on:", <<>>),
         YamlLine(2, FALSE, "pull_request:", <<>>),
         YamlLine(4, FALSE, "branches:", <<"[main]">>),
         YamlLine(4, FALSE, "steps:", <<>>),
         YamlLine(6, TRUE,  "run:", <<"|">>),
         YamlLine(10, FALSE, "", <<"cd", "{{ appPath }}">>),
         YamlLine(10, FALSE, "", <<"vercel", "build", "--region", "{{ awsRegion }}">>),
         YamlLine(6, TRUE,  "name:", <<"Test">>),
         YamlLine(8, FALSE, "working-directory:", <<"{{ appPath }}">>),
         YamlLine(8, FALSE, "run:", <<"|">>),
         YamlLine(10, FALSE, "", <<"yarn", "test">>) >> }

\* text.replace(/pattern/g, by) for a placeholder that is one word
ReplaceWord(text, word, by) ==
    [i \in 1..Len(text) |->
        [text[i] EXCEPT !.value =
            [j \in 1..Len(text[i].value) |->
                IF text[i].value[j] = word THEN by ELSE text[i].value[j]]]]

\* value || fallback
OrDefault(value, fallback) ==
    IF value \in {Missing, ""} THEN fallback ELSE value

\* the four substitutions made in both modes
SubstituteVariables(text, details) ==
    ReplaceWord(ReplaceWord(ReplaceWord(ReplaceWord(text,
        "{{ projectName }}", details.projectName),
        "{{ awsRegion }}", OrDefault(details.deployConfig.awsRegion, "us-east-1")),
        "{{ gcpProjectId }}", OrDefault(details.deployConfig.gcpProjectId, "")),
        "{{ gcpRegion }}", OrDefault(details.deployConfig.gcpRegion, "us-central1"))

RECURSIVE JoinLines(_)
\* the text made of the pieces, in order (a replace that turns each line
\* into zero or more lines)
JoinLines(pieces) ==
    IF pieces = <<>> THEN <<>>
    ELSE Head(pieces) \o JoinLines(Tail(pieces))

\* .replace(/^name: Deploy to (.+)$/m, `name: Deploy ${projectName} to $1`):
\* the first top-level name line only
RenameWorkflow(text, projectName) ==
    LET matches == { i \in 1..Len(text) :
                       /\ text[i].indent = 0 /\ ~text[i].dash
                       /\ text[i].key = "name:"
                       /\ Len(text[i].value) >= 3
                       /\ text[i].value[1] = "Deploy" /\ text[i].value[2] = "to" }
    IN  [i \in 1..Len(text) |->
            IF i \in matches /\ \A k \in matches : i <= k
            THEN [text[i] EXCEPT !.value =
                     <<"Deploy", projectName>> \o Tail(text[i].value)]
            ELSE text[i]]

\* the trigger line text[i] closes: on: push: branches: [main], or
\* pull_request: branches: [main]
ClosesTrigger(text, i) ==
    /\ i >= 2
    /\ text[i].key = "branches:" /\ text[i].value = <<"[main]">>
    /\ \/ /\ text[i - 1].key = "push:" /\ text[i - 1].value = <<>>
          /\ i >= 3
          /\ text[i - 2].key = "on:" /\ text[i - 2].value = <<>>
       \/ /\ text[i - 1].key = "pull_request:" /\ text[i - 1].value = <<>>

\* the two replaces that add path filters after the triggers
AddPathFilters(text, appPath, projectName) ==
    LET WithPaths(t, i) ==
          <<t[i]>> \o
          (IF ClosesTrigger(t, i)
           THEN << YamlLine(4, FALSE, "paths:", <<>>),
                   YamlLine(6, TRUE, "path", <<appPath \o "/**">>),
                   YamlLine(6, TRUE, "path",
                            <<".github/workflows/" \o projectName \o "-deploy.yml">>) >>
           ELSE <<>>)
    IN  JoinLines([i \in 1..Len(text) |-> WithPaths(text, i)])

\* /(\s+)(run: \|?\s*\n)/g matches a run: line whose value is empty or the
\* block marker
MatchesRunLine(line) == line.key = "run:" /\ line.value \in { <<>>, <<"|">> }

\* the replace that puts working-directory before the matched run lines.
\* The first group is all the blank text before run:, the line break
\* included, and it is written twice: a blank line separates the two lines,
\* and after a "- " the new line takes the dash.
AddWorkingDirectory(text, appPath) ==
    LET Scoped(t, i) ==
          IF ~MatchesRunLine(t[i]) THEN <<t[i]>>
          ELSE IF t[i].dash
          THEN << YamlLine(t[i].indent, TRUE, "working-directory:", <<appPath>>),
                  [t[i] EXCEPT !.dash = FALSE, !.indent = 1] >>
          ELSE << YamlLine(t[i].indent, FALSE, "working-directory:", <<appPath>>),
                  BlankLine,
                  t[i] >>
    IN  JoinLines([i \in 1..Len(text) |-> Scoped(text, i)])

\* .replace(/(docker build -t .+?) \./g, `$1 ${appPath}`)
SetBuildContext(text, appPath) ==
    [i \in 1..Len(text) |->
        LET v == text[i].value
            dots == { j \in 5..Len(v) : v[j] = "." }
        IN  IF Len(v) >= 5 /\ SubSeq(v, 1, 3) = <<"docker", "build", "-t">> /\ dots # {}
            THEN [text[i] EXCEPT !.value =
                     [j \in 1..Len(v) |->
                         IF j \in dots /\ (\A k \in dots : j <= k)
                         THEN appPath ELSE v[j]]]
            ELSE text[i]]

\* .replace(/cd \{\{ appPath \}\}\n\s*/g, ''): made after the placeholder
\* has been replaced
RemoveCd(text) ==
    SelectSeq(text, LAMBDA l : ~(l.key = "" /\ l.value = <<"cd", "{{ appPath }}">>))

\* if (monorepo) { ... } else { ... } of addGitHubActions
MonorepoWorkflow(text, appPath, projectName) ==
    RemoveCd(
      SetBuildContext(
        AddWorkingDirectory(
          AddPathFilters(
            RenameWorkflow(ReplaceWord(text, "{{ appPath }}", appPath), projectName),
            appPath, projectName),
          appPath),
        appPath))

\* the workflow text that is written
RenderWorkflow(text, details) ==
    IF details.monorepo
    THEN MonorepoWorkflow(SubstituteVariables(text, details), AppPath(details),
                          details.projectName)
    ELSE ReplaceWord(SubstituteVariables(text, details), "{{ appPath }}", ".")

\* step 2 of injectDeployConfig: if (features.includes('github-actions')) addGitHubActions.
\* fail is the operation of addGitHubActions that rejects, if any.
AddGitHubActions ==
    /\ pc = "inj_gha"
    /\ IF "github-actions" \in projectDetails.features
       THEN \E fail \in {"none", "mkdir", "read", "write"},
               template \in WorkflowTemplateTexts :
              LET templateFile == WorkflowTemplate(projectDetails.deployTarget)
                  dirs == IF fail = "mkdir" THEN <<>> ELSE WorkflowDirs
                  skipped == fail # "mkdir" /\ templateFile = NoTemplate
                  readDone == fail # "mkdir" /\ templateFile # NoTemplate
                  writeDone == readDone /\ fail # "read"
                  thrown ==
                      IF fail = "mkdir" THEN <<"WriteError", ".github/workflows">>
                      ELSE IF skipped THEN NoError
                      ELSE IF fail = "read" THEN <<"ReadError", templateFile>>
                      ELSE IF fail = "write" THEN <<"WriteError", WorkflowFile>>
                      ELSE NoError
              IN  /\ calls' = calls \o << <<"step", "addGitHubActions">> >>
                        \o << <<"write", ".github/workflows",
                                IF fail = "mkdir" THEN "failed" ELSE "ok">> >>
                        \o (IF readDone
                            THEN << <<"read", templateFile, fail # "read">> >>
                            ELSE <<>>)
                        \o (IF writeDone
                            THEN << <<"write", WorkflowFile,
                                      IF fail = "write" THEN "failed" ELSE "ok">> >>
                            ELSE <<>>)
                  /\ logged' = logged \o
                        (IF skipped
                         THEN << <<"warn", "No GitHub Actions template found",
                                   projectDetails.deployTarget>> >>
                         ELSE <<>>)
                  /\ fs' = PutAll(fs, dirs \o
                              (IF writeDone /\ fail # "write"
                               THEN << <<WorkflowFile, <<"workflow", templateFile>>>> >>
                               ELSE <<>>))
                  /\ rendered' =
                        IF writeDone /\ fail # "write"
                        THEN Put(rendered, WorkflowFile,
                                 [ source |-> template,
                                   text |-> RenderWorkflow(template, projectDetails) ])
                        ELSE rendered
                  /\ error' = thrown
                  /\ pc' = IF thrown = NoError THEN "inj_tf" ELSE "inj_catch"
       ELSE /\ pc' = "inj_tf"
            /\ UNCHANGED <<calls, logged, fs, error, rendered>>
    /\ UNCHANGED <<processors, env, entry, projectDetails, modules, augIdx, spinner, spinning,
                   started, exitCode>>

\* features.includes('terraform') && deployConfig.terraform:
\* "run", "skip", or "throw" when deployConfig is undefined
MutGateIgnoresConfig(features, deployConfig) ==
    IF "terraform" \notin features THEN "skip"
    ELSE IF ~deployConfig.defined THEN "throw"
    ELSE "run"

TerraformGate(features, deployConfig) ==
    IF "terraform" \notin features THEN "skip"
    ELSE IF ~deployConfig.defined THEN "throw"
    ELSE IF deployConfig.terraform THEN "run"
    ELSE "skip"

\* what executeTerraform leaves in the tree when it resolves
TerraformFiles ==
    << <<"terraform", Dir>>,
       <<"terraform/main.tf", <<"tf">>>>,
       <<"terraform/variables.tf", <<"tf">>>>,
       <<"terraform/outputs.tf", <<"tf">>>>,
       <<"terraform/terraform.tfvars.example", <<"tf">>>>,
       <<"terraform/terraform.tfvars", <<"tf">>>> >>

\* step 3 of injectDeployConfig: the terraform condition and executeTerraform
TerraformStep ==
    /\ pc = "inj_tf"
    /\ LET gate == TerraformGate(projectDetails.features, projectDetails.deployConfig)
       IN  CASE gate = "skip" ->
                  /\ pc' = "inj_files"
                  /\ UNCHANGED <<calls, fs, error>>
             [] gate = "throw" ->
                  /\ error' = <<"TypeError", "deployConfig", "terraform">>
                  /\ pc' = "inj_catch"
                  /\ UNCHANGED <<calls, fs>>
             [] gate = "run" ->
                  \E ok \in BOOLEAN :
                    /\ calls' = Append(calls,
                          <<"step", "executeTerraform", projectPath,
                            projectDetails.deployTarget, projectDetails>>)
                    /\ fs' = IF ok THEN PutAll(fs, TerraformFiles) ELSE fs
                    /\ error' = IF ok THEN NoError ELSE <<"TerraformError">>
                    /\ pc' = IF ok THEN "inj_files" ELSE "inj_catch"
    /\ UNCHANGED <<processors, env, rendered,
                   entry, projectDetails, modules, augIdx, logged, spinner,
                   spinning, started, exitCode>>

\* the writes of addDeploymentSpecificFiles: vercel.json for vercel, then README.md
MutVercelConfigForAll(target) ==
    << <<"vercel.json", <<"vercel">>>>, <<"README.md", <<"readme", target>>>> >>

DeploymentSpecificWrites(target) ==
    (IF target = "vercel" THEN << <<"vercel.json", <<"vercel">>>> >> ELSE <<>>)
    \o << <<"README.md", <<"readme", target>>>> >>

\* step 4 of injectDeployConfig: addDeploymentSpecificFiles
AddDeploymentSpecificFiles ==
    /\ pc = "inj_files"
    /\ LET ws == DeploymentSpecificWrites(projectDetails.deployTarget)
       IN  \E failAt \in 0..Len(ws) :
             /\ calls' = calls \o << <<"step", "addDeploymentSpecificFiles">> >>
                   \o WriteEvents(ws, failAt)
             /\ fs' = PutAll(fs, Written(ws, failAt))
             /\ error' = WriteError(ws, failAt)
             /\ pc' = IF failAt = 0 THEN "inj_end" ELSE "inj_catch"
    /\ UNCHANGED <<processors, env, rendered,
                   entry, projectDetails, modules, augIdx, logged, spinner,
                   spinning, started, exitCode>>

\* the end of the try block: stopSpinner(true, ...) and return
InjectEnd ==
    /\ pc = "inj_end"
    /\ SetSpin(StopSpinner(Spin))
    /\ calls' = Append(calls, <<"stage", "injectDeployConfig", "end">>)
    /\ pc' = InjectReturn
    /\ UNCHANGED <<processors, env, rendered,
                   entry, projectDetails, modules, augIdx, logged, fs, error,
                   exitCode>>

\* the catch block: stopSpinner(false, ...) and throw error
InjectCatch ==
    /\ pc = "inj_catch"
    /\ SetSpin(StopSpinner(Spin))
    /\ calls' = Append(calls, <<"stage", "injectDeployConfig", "throw">>)
    /\ pc' = InjectReject
    /\ UNCHANGED <<processors, env, rendered,
                   entry, projectDetails, modules, augIdx, logged, fs, error,
                   exitCode>>

NextInject ==
    \/ CallInjectDeployConfig
    \/ InjectStart
    \/ AddDockerConfig
    \/ AddGitHubActions
    \/ TerraformStep
    \/ AddDeploymentSpecificFiles
    \/ InjectEnd
    \/ InjectCatch

\* injectDeployConfig called directly
SpecInject == Init /\ [][NextInject]_vars

-----------------------------------------------------------------------------
(* lib/cli.js, lib/framework-wrapper.js, lib/post-processor.js *)

\* augmentation tokens given on a command-line run
CliTokens ==
    { <<"database", ":", "postgres">>,
      <<"auth", ":", "nextauth">>,
      <<"bogus", ":", "thing">> }

\* what the interactive prompts let the user answer: terraform is offered
\* only when the target's configuration has it, and the augmentations
\* question is not asked for vercel
Answerable(target, feats, augs) ==
    /\ ("terraform" \in feats => DeployTargetsConfig(target).terraform)
    /\ (target = "vercel" => augs = <<>>)

\* the characters of the project names of the runs
NameChars ==
    ("web" :> <<"w", "e", "b">>) @@
    ("my-app" :> <<"m", "y", "-", "a", "p", "p">>) @@
    ("My_App" :> <<"M", "y", "_", "A", "p", "p">>) @@
    ("." :> <<".">>)

LowercaseDigitsHyphen ==
    { "a", "b", "c", "d", "e", "f", "g", "h", "i", "j", "k", "l", "m", "n", "o",
      "p", "q", "r", "s", "t", "u", "v", "w", "x", "y", "z",
      "0", "1", "2", "3", "4", "5", "6", "7", "8", "9", "-" }

\* /^[a-z0-9-]+$/.test(input)
MatchesNamePattern(name) ==
    LET cs == NameChars[name]
    IN  /\ Len(cs) >= 1
        /\ \A i \in 1..Len(cs) : cs[i] \in LowercaseDigitsHyphen

\* validate of the project-name question: true, or the message the prompt
\* shows before asking again
ValidateProjectName(name, dirExists) ==
    IF ~MatchesNamePattern(name) THEN "Project name can only contain ..."
    ELSE IF dirExists THEN "Directory already exists"
    ELSE "true"

\* the project names given to a command-line run, and whether the
\* directory of that name exists in the working directory
CliProjects ==
    { [ name |-> "web",    exists |-> FALSE ],
      [ name |-> "My_App", exists |-> FALSE ],
      [ name |-> "web",    exists |-> TRUE ] }

\* what is in a project directory that exists before the run
ExistingTree == ("index.html" :> <<"existing">>)

\* the project-name question is asked only in interactive mode without a
\* name argument, and is asked again until validate accepts the answer
NameAccepted(ci, nameArg, project) ==
    (~ci /\ ~nameArg) => ValidateProjectName(project.name, project.exists) = "true"

\* the action of runCLI up to wrapFrameworkCommand: promptProjectDetails.
\* In CI mode the name comes from CREATE_FDE_APP_PROJECT_DIR.
PromptProjectDetails ==
    /\ pc = "idle"
    /\ \E ci \in BOOLEAN, nameArg \in BOOLEAN, monorepoAsked \in BOOLEAN,
          project \in CliProjects,
          fw \in {"nextjs", UnsupportedFramework},
          target \in DeployTargets \cup {UnsupportedTarget},
          feats \in SUBSET Features,
          augs \in SeqsUpTo(CliTokens, MaxCliAugs),
          git \in BOOLEAN :
         /\ (ci => ~nameArg)
         /\ (~ci => Answerable(target, feats, augs))
         /\ NameAccepted(ci, nameArg, project)
         /\ projectDetails' = PromptResult(ci, project.name, fw, target, feats, augs, git)
         /\ env' = Env(ci, nameArg, monorepoAsked, project.exists)
         /\ fs' = IF project.exists THEN ExistingTree ELSE EmptyTree
    /\ entry' = "cli"
    /\ pc' = "wrap"
    /\ UNCHANGED <<processors, modules, augIdx, calls, logged, spinner, spinning, started,
                   error, exitCode, rendered>>

\* what the generator leaves on disk
GeneratedTree == << <<"package.json", <<"generated">>>> >>

\* await wrapFrameworkCommand(...) inside the try of the action: where the
\* action goes on
MutIgnoreWrapFailure(thrown) == "process"

AfterWrap(thrown) == IF thrown = NoError THEN "process" ELSE "cli_catch"

\* what the generator process may reject with
GeneratorFailures == { "Command failed", "spawn npx ENOENT" }

\* catch (error) { ... throw new Error(`Failed to create ${framework} project: ${error.message}`) }
MutRethrowCause(framework, cause) == <<"Error", cause>>

WrapError(framework, cause) ==
    <<"Error", "Failed to create", framework, "project:", cause>>

\* wrapFrameworkCommand(projectDetails)
WrapFrameworkCommand ==
    /\ pc = "wrap"
    /\ IF ~projectDetails.frameworkConfig.defined
       THEN \* frameworkConfig.displayName is read before the try block
            /\ error' = <<"TypeError", "frameworkConfig", "displayName">>
            /\ pc' = AfterWrap(error')
            /\ calls' = calls \o << <<"stage", "wrapFrameworkCommand", "start">>,
                                    <<"stage", "wrapFrameworkCommand", "throw">> >>
            /\ UNCHANGED <<fs, spinner, spinning, started>>
       ELSE \E outcome \in {"ok"} \cup GeneratorFailures :
            LET ok == outcome = "ok"
            IN  /\ SetSpin(StopSpinner(StartSpinner(Spin)))
                /\ calls' = calls \o
                      << <<"stage", "wrapFrameworkCommand", "start">>,
                         <<"exec", "npx", projectDetails.framework,
                           projectDetails.projectName,
                           IF projectDetails.skipInstall THEN "--skip-install"
                           ELSE "install">>,
                         <<"stage", "wrapFrameworkCommand",
                           IF ok THEN "end" ELSE "throw">> >>
                /\ fs' = IF ok THEN PutAll(fs, GeneratedTree) ELSE fs
                /\ error' = IF ok THEN NoError
                            ELSE WrapError(projectDetails.framework, outcome)
                /\ pc' = AfterWrap(error')
    /\ UNCHANGED <<processors, env, rendered,
                   entry, projectDetails, modules, augIdx, logged, exitCode>>

\* BasePostProcessor.createDirectories: the directories it makes
StandardDirectories == << ".github/workflows", "terraform", "docker" >>

\* the mkdir calls of createDirectories on this tree: existing ones are skipped
DirectoriesToCreate(tree) ==
    SelectSeq([i \in 1..Len(StandardDirectories) |-> <<StandardDirectories[i], Dir>>],
              LAMBDA w : w[1] \notin DOMAIN tree)

-----------------------------------------------------------------------------
(* lib/post-processor-loader.js: PostProcessorLoader *)

\* calls made on the loader in one run
MaxLoaderCalls == 2

\* the frameworks the loader is asked for
LoaderFrameworks == { "nextjs", UnsupportedFramework }

\* what import(`../post-processors/${framework}/index.js`) gives: a module
\* with a default export, a rejection, or a module without default export
ImportOutcomes == { "ok", "missing", "no default" }

\* the class loadProcessor instantiates: the module's default export, or
\* BasePostProcessor from its catch block
MutAlwaysFrameworkProcessor(outcome) == "framework"

ProcessorClass(outcome) == IF outcome = "ok" THEN "framework" ELSE "base"

\* new ProcessorClass(projectPath, framework, projectDetails): the
\* constructor keeps its three arguments
NewProcessor(kind, path, framework, details) ==
    [ kind |-> kind, projectPath |-> path, framework |-> framework,
      projectDetails |-> details ]

\* the log line of loadProcessor (the warning also carries the message of
\* the error that was caught)
LoadLog(framework, outcome) ==
    IF outcome = "ok" THEN <<"info", "Loaded post-processor", framework>>
    ELSE <<"warn", "Failed to load post-processor", framework>>

\* this.processors.get(framework), then if (!processor) loadProcessor:
\* the processor that process() runs
CachedOrLoaded(cache, framework, loaded) ==
    IF framework \in DOMAIN cache THEN cache[framework] ELSE loaded

\* the mkdir calls of createDirectories of a processor: the standard
\* directories under its own projectPath that do not exist
ProcessorDirectories(processor, tree) ==
    SelectSeq([i \in 1..Len(StandardDirectories) |->
                  <<processor.projectPath[2] \o "/" \o StandardDirectories[i], Dir>>],
              LAMBDA w : w[1] \notin DOMAIN tree)

\* calls made on the loader so far
LoaderCallCount ==
    Cardinality({ k \in 1..Len(calls) :
                    \/ calls[k][1] = "postprocess"
                    \/ calls[k][1] = "load" /\ calls[k][5] })

LoaderReady ==
    /\ pc \in {"idle", "loader"}
    /\ entry \in {"none", "loader"}
    /\ LoaderCallCount < MaxLoaderCalls

\* loader.loadProcessor(framework, projectPath, projectDetails) called by a
\* module user
LoaderLoadProcessor ==
    /\ LoaderReady
    /\ \E framework \in LoaderFrameworks, name \in ProjectNames,
          outcome \in ImportOutcomes :
         LET details == PromptResult(TRUE, name, framework, "vercel", {}, <<>>, FALSE)
             processor == NewProcessor(ProcessorClass(outcome), ProjectPath(name),
                                       framework, details)
         IN  /\ processors' = (framework :> processor) @@ processors
             /\ calls' = Append(calls, <<"load", framework, outcome, processor, TRUE>>)
             /\ logged' = Append(logged, LoadLog(framework, outcome))
    /\ error' = NoError
    /\ entry' = "loader"
    /\ pc' = "loader"
    /\ UNCHANGED <<projectDetails, modules, augIdx, fs, spinner, spinning, started,
                   exitCode, env, rendered>>

\* loader.process(framework, projectPath, projectDetails): the cached
\* processor or a newly loaded one, then processor.process()
LoaderProcess ==
    /\ LoaderReady
    /\ \E framework \in LoaderFrameworks, name \in ProjectNames,
          outcome \in ImportOutcomes :
         LET details == PromptResult(TRUE, name, framework, "vercel", {}, <<>>, FALSE)
             loaded == NewProcessor(ProcessorClass(outcome), ProjectPath(name),
                                    framework, details)
             processor == CachedOrLoaded(processors, framework, loaded)
             loads == framework \notin DOMAIN processors
             ws == ProcessorDirectories(processor, fs)
         IN  \* the import has an outcome only when it is made
             /\ ~loads => outcome = "ok"
             /\ \E failAt \in 0..Len(ws) :
                  /\ processors' = IF loads
                                   THEN (framework :> processor) @@ processors
                                   ELSE processors
                  /\ calls' = calls
                        \o (IF loads
                            THEN << <<"load", framework, outcome, processor, FALSE>> >>
                            ELSE <<>>)
                        \o << <<"postprocess", framework, ProjectPath(name), details,
                                processor>> >>
                        \o WriteEvents(ws, failAt)
                  /\ logged' = IF loads
                               THEN Append(logged, LoadLog(framework, outcome))
                               ELSE logged
                  /\ fs' = PutAll(fs, Written(ws, failAt))
                  /\ error' = WriteError(ws, failAt)
    /\ entry' = "loader"
    /\ pc' = "loader"
    /\ UNCHANGED <<projectDetails, modules, augIdx, spinner, spinning, started,
                   exitCode, env, rendered>>

\* loader.clear(): this.processors.clear() (on an empty map it changes nothing)
LoaderClear ==
    /\ pc = "loader"
    /\ processors # EmptyTree
    /\ processors' = EmptyTree
    /\ UNCHANGED <<pc, entry, projectDetails, modules, augIdx, calls, logged, fs,
                   spinner, spinning, started, error, exitCode, env, rendered>>

NextLoader ==
    \/ LoaderLoadProcessor
    \/ LoaderProcess
    \/ LoaderClear

\* a PostProcessorLoader used directly
SpecLoader == Init /\ [][NextLoader]_vars

-----------------------------------------------------------------------------
(* lib/post-processor.js *)

\* processProject up to the augmentations: startSpinner, then
\* postProcessorLoader.process on the singleton, which loads the processor
\* of the framework.  Every processor's process() runs createDirectories
\* first; its other tasks are behind features (env-vars, health-check,
\* security, production-ready) that are not in Features.
PostProcess ==
    /\ pc = "process"
    /\ \E outcome \in ImportOutcomes :
         LET processor == CachedOrLoaded(processors, projectDetails.framework,
                              NewProcessor(ProcessorClass(outcome), projectPath,
                                           projectDetails.framework, projectDetails))
             ws == DirectoriesToCreate(fs)
         IN  \E failAt \in 0..Len(ws) :
               /\ processors' = (projectDetails.framework :> processor) @@ processors
               /\ calls' = calls \o << <<"stage", "processProject", "start">> >>
                     \o WriteEvents(ws, failAt)
               /\ logged' = Append(logged, LoadLog(projectDetails.framework, outcome))
               /\ fs' = PutAll(fs, Written(ws, failAt))
               /\ error' = WriteError(ws, failAt)
               /\ pc' = IF failAt = 0 THEN "augment" ELSE "process_catch"
    /\ SetSpin(StartSpinner(Spin))
    /\ UNCHANGED <<env, rendered, entry, projectDetails, modules, augIdx, exitCode>>

\* if (augmentations && augmentations.length > 0) { startSpinner(...); processAugmentations
AugmentStart ==
    /\ pc = "augment"
    /\ IF Len(projectDetails.augmentations) > 0
       THEN /\ SetSpin(StartSpinner(Spin))
            /\ pc' = "aug_load"
       ELSE /\ pc' = "git"
            /\ UNCHANGED <<spinner, spinning, started>>
    /\ UNCHANGED <<processors, env, rendered,
                   entry, projectDetails, modules, augIdx, calls, logged, fs,
                   error, exitCode>>

\* ... stopSpinner(true, 'Advanced features added!') }
AugmentEnd ==
    /\ pc = "aug_done"
    /\ SetSpin(StopSpinner(Spin))
    /\ pc' = "git"
    /\ UNCHANGED <<processors, env, rendered,
                   entry, projectDetails, modules, augIdx, calls, logged, fs,
                   error, exitCode>>

\* the catch of initGit: what is still thrown after it
MutGitFailureThrown(thrown) == thrown

CatchInitGit(thrown) == NoError

\* if (shouldInitGit) await initGit(projectPath): every failure inside
\* initGit is caught and logged as a warning
InitGitStep ==
    /\ pc = "git"
    /\ IF projectDetails.initGit
       THEN \E ok \in BOOLEAN :
              LET thrown == IF ok THEN NoError ELSE <<"Error", "git init failed">>
                  escaped == CatchInitGit(thrown)
              IN  /\ calls' = calls \o << <<"exec", "git", "init">> >>
                        \o (IF ok THEN << <<"write", ".gitignore", "ok">>,
                                          <<"exec", "git", "commit",
                                            DOMAIN fs \cup {".gitignore"}>> >>
                            ELSE <<>>)
                  /\ fs' = IF ok THEN Put(fs, ".gitignore", <<"gitignore">>) ELSE fs
                  /\ logged' = IF thrown # NoError /\ escaped = NoError
                               THEN Append(logged,
                                      <<"warn", "Failed to initialize git repository">>)
                               ELSE logged
                  /\ error' = escaped
                  /\ pc' = IF escaped = NoError THEN "process_end" ELSE "process_catch"
       ELSE /\ pc' = "process_end"
            /\ UNCHANGED <<calls, fs, logged, error>>
    /\ UNCHANGED <<processors, env, rendered,
                   entry, projectDetails, modules, augIdx, spinner, spinning,
                   started, exitCode>>

\* the end of the try block of processProject
ProcessProjectEnd ==
    /\ pc = "process_end"
    /\ SetSpin(StopSpinner(Spin))
    /\ calls' = Append(calls, <<"stage", "processProject", "end">>)
    /\ pc' = "inject"
    /\ UNCHANGED <<processors, env, rendered,
                   entry, projectDetails, modules, augIdx, logged, fs, error,
                   exitCode>>

\* the catch block of processProject
ProcessProjectCatch ==
    /\ pc = "process_catch"
    /\ SetSpin(StopSpinner(Spin))
    /\ calls' = Append(calls, <<"stage", "processProject", "throw">>)
    /\ pc' = "cli_catch"
    /\ UNCHANGED <<processors, env, rendered,
                   entry, projectDetails, modules, augIdx, logged, fs, error,
                   exitCode>>

\* the success messages; the process then ends with exit code 0
CliSuccess ==
    /\ pc = "cli_success"
    /\ exitCode' = "0"
    /\ pc' = "done"
    /\ UNCHANGED <<processors, env, rendered,
                   entry, projectDetails, modules, augIdx, calls, logged, fs,
                   spinner, spinning, started, error>>

\* catch (error) { logger.error(...); process.exit(1) }
CliCatch ==
    /\ pc = "cli_catch"
    /\ logged' = Append(logged, <<"error", "Failed to create project:", error>>)
    /\ exitCode' = "1"
    /\ pc' = "done"
    /\ UNCHANGED <<processors, env, rendered,
                   entry, projectDetails, modules, augIdx, calls, fs, spinner,
                   spinning, started, error>>

Next ==
    \/ PromptProjectDetails
    \/ WrapFrameworkCommand
    \/ PostProcess
    \/ AugmentStart
    \/ LoadAugmentationModules
    \/ ProcessAugmentation
    \/ ProcessAugmentationsReturn
    \/ AugmentEnd
    \/ InitGitStep
    \/ ProcessProjectEnd
    \/ ProcessProjectCatch
    \/ InjectStart
    \/ AddDockerConfig
    \/ AddGitHubActions
    \/ TerraformStep
    \/ AddDeploymentSpecificFiles
    \/ InjectEnd
    \/ InjectCatch
    \/ CliSuccess
    \/ CliCatch

\* one run of the command line
Spec == Init /\ [][Next]_vars

-----------------------------------------------------------------------------
(* Claims about the augmentation dispatcher *)

augmentations == projectDetails.augmentations

\* positions in calls of the category-handler invocations made for token j
HandlerCallsAt(j) ==
    { k \in 1..Len(calls) : calls[k][1] = "handler" /\ calls[k][3] = j }

\* positions in calls of the setup-function invocations made for token j
SetupCallsAt(j) ==
    { k \in 1..Len(calls) : calls[k][1] = "setup" /\ calls[k][3] = j }

\* the text after the first separator (the whole remainder)
AfterFirst(s, sep) ==
    LET k == IndexOfFrom(s, sep, 1)
    IN  IF k = 0 THEN UNDEFINED ELSE SubSeq(s, k + 1, Len(s))

\* the text before the first separator
BeforeFirst(s, sep) ==
    LET k == IndexOfFrom(s, sep, 1)
    IN  IF k = 0 THEN s ELSE SubSeq(s, 1, k - 1)

\* the category of a token as the specification reads it: the text before
\* the first colon
CategoryOf(token) == BeforeFirst(token, ":")

\* the type of a token as the specification reads it: all the text after
\* the first colon
TypeOf(token) == AfterFirst(token, ":")

\* the handler the specification assigns to a category
HandlerOfCategory(c) ==
    CASE c = Str("database")   -> "setupDatabase"
      [] c = Str("auth")       -> "setupAuth"
      [] c = Str("monitoring") -> "setupMonitoring"
      [] c = Str("utility")    -> "setupUtility"

\* the loop of processAugmentations has gone past token j
Processed(j) == j \in 1..(augIdx - 1)

\* C1: continue-on-failure.  Whenever the setup routine invoked for a token
\* i has rejected, the error was caught and logged for that token,
\* processAugmentations has not rejected (no error is in flight and the
\* loop has moved past i, and it returns only with the whole list walked),
\* and every later token the loop has passed whose category is known had
\* its setup routine invoked exactly once.
C1_ContinueOnFailure ==
    \A k \in 1..Len(calls) :
        (calls[k][1] = "handler" /\ calls[k][7] = "rejected") =>
            LET i == calls[k][3]
            IN  /\ \E l \in 1..Len(logged) :
                      /\ logged[l][1] = "error"
                      /\ logged[l][2] = "Failed to add"
                      /\ logged[l][3] = augmentations[i]
                /\ error = NoError
                /\ Processed(i)
                /\ (pc = "done" => augIdx = Len(augmentations) + 1)
                /\ \A j \in (i + 1)..Len(augmentations) :
                      (Processed(j) /\ CategoryOf(augmentations[j]) \in KnownCategories)
                          => Cardinality(HandlerCallsAt(j)) = 1

\* C1 witness: a two-token list whose first setup routine rejected and whose
\* second was invoked, with processAugmentations returned.
C1_Witness ==
    /\ pc = "done"
    /\ entry = "aug"
    /\ Len(augmentations) = 2
    /\ \E k \in HandlerCallsAt(1) : calls[k][7] = "rejected"
    /\ HandlerCallsAt(2) # {}

\* C7: unknown category.  For every token the loop has passed whose
\* category is none of the four, no handler and no setup function was
\* invoked for it and a warning naming the category was logged; a token of
\* unknown category never makes processAugmentations reject, and a run that
\* returns has walked the whole list.
C7_UnknownCategory ==
    /\ \A j \in 1..Len(augmentations) :
          (Processed(j) /\ CategoryOf(augmentations[j]) \notin KnownCategories) =>
              /\ HandlerCallsAt(j) = {}
              /\ SetupCallsAt(j) = {}
              /\ \E l \in 1..Len(logged) :
                    /\ logged[l][1] = "warn"
                    /\ logged[l][2] = "Unknown augmentation category"
                    /\ logged[l][3] = CategoryOf(augmentations[j])
    /\ (pc = "done" /\ error # NoError /\ error[1] # "ImportError") =>
          CategoryOf(augmentations[augIdx]) \in KnownCategories
    /\ (pc = "done" /\ error = NoError) => augIdx = Len(augmentations) + 1

\* C7 witness: an unknown-category token was passed and the token after it
\* had its handler invoked.
C7_Witness ==
    /\ pc = "done"
    /\ Len(augmentations) = 2
    /\ CategoryOf(augmentations[1]) \notin KnownCategories
    /\ HandlerCallsAt(2) # {}
    /\ error = NoError

\* C8: token dispatch.  For every token c:t the loop has passed with c one
\* of the four categories, exactly one category handler was invoked for
\* it, the handler of c, with the arguments (projectPath, framework, t).
C8_TokenDispatch ==
    \A j \in 1..Len(augmentations) :
        (Processed(j) /\ CategoryOf(augmentations[j]) \in KnownCategories) =>
            /\ Cardinality(HandlerCallsAt(j)) = 1
            /\ \A k \in HandlerCallsAt(j) :
                  /\ calls[k][2] = HandlerOfCategory(CategoryOf(augmentations[j]))
                  /\ calls[k][4] = projectPath
                  /\ calls[k][5] = projectDetails.framework
                  /\ calls[k][6] = TypeOf(augmentations[j])

-----------------------------------------------------------------------------
(* Claims about the command-line run *)

StageEvent(name, phase) == <<"stage", name, phase>>

\* positions in calls of an event
PositionsOf(e) == { k \in 1..Len(calls) : calls[k] = e }

\* C2: augmentations are applied only after the deployment artifacts exist.
\* Every invocation of an augmentation handler or setup function is
\* preceded by the completion of injectDeployConfig.
C2_AugmentAfterDeploy ==
    \A k \in 1..Len(calls) :
        calls[k][1] \in {"handler", "setup"} =>
            \E m \in PositionsOf(StageEvent("injectDeployConfig", "end")) : m < k

\* C3: deployment injection and post-processing only after the generator.
\* Every start of processProject or injectDeployConfig is preceded by the
\* successful completion of wrapFrameworkCommand, and once the generator
\* invocation has failed neither of them is ever started.
C3_AfterGenerator ==
    /\ \A k \in 1..Len(calls) :
          (calls[k][1] = "stage" /\ calls[k][3] = "start"
             /\ calls[k][2] \in {"processProject", "injectDeployConfig"}) =>
              \E m \in PositionsOf(StageEvent("wrapFrameworkCommand", "end")) : m < k
    /\ PositionsOf(StageEvent("wrapFrameworkCommand", "throw")) # {} =>
          /\ PositionsOf(StageEvent("processProject", "start")) = {}
          /\ PositionsOf(StageEvent("injectDeployConfig", "start")) = {}
          /\ pc \in {"cli_catch", "done"}
          /\ exitCode # "0"

\* C3 witness: the generator failed and the run has ended.
C3_Witness ==
    /\ pc = "done"
    /\ exitCode = "1"
    /\ projectDetails.frameworkConfig.defined
    /\ PositionsOf(StageEvent("wrapFrameworkCommand", "throw")) # {}

\* C6: end-to-end scenario 1.  After a complete run with features =
\* [docker], target vercel, the tree holds Dockerfile and .dockerignore and
\* neither a .github/workflows directory nor a terraform directory.
C6_ScenarioOne ==
    (/\ pc = "done"
     /\ exitCode = "0"
     /\ projectDetails.features = {"docker"}
     /\ projectDetails.deployTarget = "vercel") =>
        /\ "Dockerfile" \in DOMAIN fs
        /\ ".dockerignore" \in DOMAIN fs
        /\ ".github/workflows" \notin DOMAIN fs
        /\ "terraform" \notin DOMAIN fs

-----------------------------------------------------------------------------
(* Claims about injectDeployConfig *)

\* positions in calls of the failed writes
FailedWrites ==
    { k \in 1..Len(calls) : calls[k][1] = "write" /\ calls[k][3] = "failed" }

\* positions in calls of the start of a dispatch step
StepCalls(name) ==
    { k \in 1..Len(calls) : calls[k][1] = "step" /\ calls[k][2] = name }

DockerTemplatePaths == { "docker/framework/Dockerfile", "docker/common/Dockerfile.base" }

\* the outcome of a template read that was made: "ok", "missing", or "unread"
ReadOutcome(path) ==
    IF \E k \in 1..Len(calls) :
          calls[k][1] = "read" /\ calls[k][2] = path /\ calls[k][3]
    THEN "ok"
    ELSE IF \E k \in 1..Len(calls) : calls[k][1] = "read" /\ calls[k][2] = path
    THEN "missing"
    ELSE "unread"

ExpectedDockerfile ==
    IF ReadOutcome("docker/framework/Dockerfile") = "ok" THEN "framework"
    ELSE IF ReadOutcome("docker/common/Dockerfile.base") = "ok" THEN "common"
    ELSE "inline"

\* C5: Docker template fallback chain.  Once addDockerConfig has run: the
\* generic template is read exactly when the framework one could not be;
\* the Dockerfile written is the framework template if it could be read,
\* else the generic one if it could be read, else the inline fallback;
\* unless a write itself failed, Dockerfile and .dockerignore are both in
\* the tree; and no missing template is ever the error of the run.
C5_DockerFallback ==
    StepCalls("addDockerConfig") # {} =>
        /\ ReadOutcome("docker/framework/Dockerfile") # "unread"
        /\ (ReadOutcome("docker/common/Dockerfile.base") # "unread"
              <=> ReadOutcome("docker/framework/Dockerfile") = "missing")
        /\ ("Dockerfile" \in DOMAIN fs =>
              fs["Dockerfile"] = <<"Dockerfile", ExpectedDockerfile>>)
        /\ (\A k \in FailedWrites : calls[k][2] \notin {"Dockerfile", ".dockerignore"}) =>
              /\ "Dockerfile" \in DOMAIN fs
              /\ ".dockerignore" \in DOMAIN fs
              /\ pc # "inj_docker"
        /\ (error # NoError /\ error[1] = "ReadError") => error[2] \notin DockerTemplatePaths

\* C5 witness: neither template could be read, and the inline Dockerfile
\* and the .dockerignore are in the tree of a run that returned normally.
C5_Witness ==
    /\ pc = "done"
    /\ error = NoError
    /\ ReadOutcome("docker/framework/Dockerfile") = "missing"
    /\ ReadOutcome("docker/common/Dockerfile.base") = "missing"
    /\ "Dockerfile" \in DOMAIN fs
    /\ fs["Dockerfile"] = <<"Dockerfile", "inline">>
    /\ ".dockerignore" \in DOMAIN fs

\* the targets the specification says support infrastructure-as-code
TerraformTargets == { "aws-apprunner", "gcp-cloudrun" }

\* the dispatch has passed its terraform step
PastTerraformStep ==
    \/ pc \in {"inj_files", "inj_end"}
    \/ StepCalls("addDeploymentSpecificFiles") # {}

C10_NoWorkflowTemplate ==
    ("github-actions" \in projectDetails.features
       /\ pc # "idle"
       /\ projectDetails.deployTarget \notin DeployTargets) =>
        /\ WorkflowFile \notin DOMAIN fs
        /\ \A k \in 1..Len(calls) : calls[k][1] = "write" => calls[k][2] # WorkflowFile
        /\ (StepCalls("addGitHubActions") # {} /\ FailedWrites = {}) =>
              \E l \in 1..Len(logged) :
                  /\ logged[l][1] = "warn"
                  /\ logged[l][2] = "No GitHub Actions template found"
        /\ error # NoError => error[1] = "WriteError"
        /\ pc = "done" => (error # NoError \/ "README.md" \in DOMAIN fs)

-----------------------------------------------------------------------------
(* Claims about validation, failures and the non-interactive mode *)

\* positions in calls of the processes executed
ExecCalls == { k \in 1..Len(calls) : calls[k][1] = "exec" }

\* positions in calls of the writes attempted
WriteCalls == { k \in 1..Len(calls) : calls[k][1] = "write" }

\* a line of the log
Logged(level, message) ==
    \E l \in 1..Len(logged) : logged[l][1] = level /\ logged[l][2] = message

\* C11: validation before any mutation.  In a command-line run whose
\* project name does not match ^[a-z0-9-]+$ or whose target directory
\* already exists, the generator is never invoked, nothing is written (the
\* tree stays as it was found), and the run ends with exit code 1.
C11_ValidationBeforeMutation ==
    (/\ entry = "cli"
     /\ \/ ~MatchesNamePattern(projectDetails.projectName)
        \/ env.dirExists) =>
        /\ ExecCalls = {}
        /\ WriteCalls = {}
        /\ fs = (IF env.dirExists THEN ExistingTree ELSE EmptyTree)
        /\ pc = "done" => exitCode = "1"

\* C12: generator failure.  Whenever the generator process was executed and
\* wrapFrameworkCommand threw, the error in flight is an Error whose
\* message is "Failed to create <framework> project: <cause>" with the
\* cause the process rejected with, the run is in or past the top-level
\* catch, and when it has ended it has logged that error and its exit code
\* is 1.
C12_GeneratorFailure ==
    \A k \in PositionsOf(StageEvent("wrapFrameworkCommand", "throw")) :
        (k >= 2 /\ calls[k - 1][1] = "exec") =>
            /\ \E cause \in GeneratorFailures :
                  error = <<"Error", "Failed to create", projectDetails.framework,
                            "project:", cause>>
            /\ calls[k - 1][3] = projectDetails.framework
            /\ pc \in {"cli_catch", "done"}
            /\ pc = "done" =>
                  /\ exitCode = "1"
                  /\ logged # <<>>
                  /\ logged[Len(logged)] = <<"error", "Failed to create project:", error>>

\* C12 witness: the generator rejected with "Command failed" and the run
\* has ended with exit code 1.
C12_Witness ==
    /\ pc = "done"
    /\ exitCode = "1"
    /\ ExecCalls # {}
    /\ Len(error) = 5
    /\ error[5] = "Command failed"

C14_CiSkipsGitAndInstall ==
    (entry = "cli" /\ env.CI) =>
        \A k \in ExecCalls :
            /\ calls[k][2] \notin {"git", "npm install", "yarn add"}
            /\ calls[k][2] = "npx" => calls[k][5] = "--skip-install"

\* C15: end-to-end scenario 3 through the command line.  In a command-line
\* run for which monorepo mode was asked (--monorepo or
\* CREATE_FDE_APP_MONOREPO=true) with project name web, once
\* injectDeployConfig has started its project details carry monorepo = true
\* and monorepoPath = apps/, deploy.yml is never written, and a workflow
\* that is written is .github/workflows/web-deploy.yml.
C15_MonorepoThroughCli ==
    (/\ entry = "cli"
     /\ env.monorepo
     /\ projectDetails.projectName = "web"
     /\ PositionsOf(StageEvent("injectDeployConfig", "start")) # {}) =>
        /\ projectDetails.monorepo
        /\ projectDetails.monorepoPath = "apps/"
        /\ ".github/workflows/deploy.yml" \notin DOMAIN fs
        /\ \A k \in WriteCalls : calls[k][2] # ".github/workflows/deploy.yml"
        /\ WorkflowFile = ".github/workflows/web-deploy.yml"

-----------------------------------------------------------------------------
(* Claims about monorepo mode *)

\* the names a workflow file can take for the project names of InjectNames
WorkflowPaths ==
    { ".github/workflows/deploy.yml" }
    \cup { ".github/workflows/" \o n \o "-deploy.yml" : n \in InjectNames \cup ProjectNames }

\* positions in calls of the writes of a workflow file
WorkflowWrites == { k \in WriteCalls : calls[k][2] \in WorkflowPaths }

\* addGitHubActions has run to its end with a template for the target
WorkflowStepDone ==
    /\ StepCalls("addGitHubActions") # {}
    /\ projectDetails.deployTarget \in DeployTargets
    /\ pc \notin {"inj_gha", "inj_catch"}
    /\ error = NoError

\* C16: workflow filename.  A run writes at most one workflow file, and
\* exactly one once addGitHubActions has run to its end with a template;
\* its name is deploy.yml when monorepo is false and <projectName>-deploy.yml
\* when it is true; and two different project names never give the same
\* monorepo workflow name, nor the name deploy.yml.
C16_WorkflowFileName ==
    LET expected == IF projectDetails.monorepo
                    THEN ".github/workflows/" \o projectDetails.projectName
                            \o "-deploy.yml"
                    ELSE ".github/workflows/deploy.yml"
    IN  /\ Cardinality(WorkflowWrites) <= 1
        /\ \A k \in WorkflowWrites : calls[k][2] = expected
        /\ DOMAIN fs \cap WorkflowPaths \subseteq {expected}
        /\ DOMAIN rendered \cap WorkflowPaths \subseteq {expected}
        /\ WorkflowStepDone =>
              /\ Cardinality(WorkflowWrites) = 1
              /\ DOMAIN fs \cap WorkflowPaths = {expected}
        /\ \A n1, n2 \in InjectNames :
              LET name1 == WorkflowFileName([monorepo |-> TRUE, projectName |-> n1])
                  name2 == WorkflowFileName([monorepo |-> TRUE, projectName |-> n2])
              IN  /\ n1 # n2 => name1 # name2
                  /\ name1 # WorkflowFileName([monorepo |-> FALSE, projectName |-> n1])

\* C16 witness: a monorepo run for my-app has returned with
\* my-app-deploy.yml as its only workflow file.
C16_Witness ==
    /\ pc = "done"
    /\ error = NoError
    /\ projectDetails.monorepo
    /\ projectDetails.projectName = "my-app"
    /\ DOMAIN fs \cap WorkflowPaths = {".github/workflows/my-app-deploy.yml"}

\* the line that opens the step which line i of a workflow text belongs to
\* (0 before the first step)
StepStart(text, i) ==
    LET opens == { k \in 1..i : text[k].dash /\ text[k].key # "path" }
    IN  IF opens = {} THEN 0 ELSE CHOOSE k \in opens : \A m \in opens : m <= k

\* the steps of a workflow text that have a line with the key
StepsWith(text, key) ==
    { StepStart(text, i) : i \in { k \in 1..Len(text) : text[k].key = key } }

\* C17: monorepo working-directory scoping.  In a workflow written in
\* monorepo mode every step that has a run: line, single-line or block,
\* has a working-directory: line; the template's steps that had none carry
\* the application path; and the number of steps is that of the template.
C17_WorkingDirectoryScoping ==
    \A p \in DOMAIN rendered \cap WorkflowPaths :
        projectDetails.monorepo =>
            LET text == rendered[p].text
                source == rendered[p].source
            IN  /\ StepsWith(text, "run:") \subseteq StepsWith(text, "working-directory:")
                /\ Cardinality(StepsWith(text, "run:"))
                      = Cardinality(StepsWith(source, "run:"))
                /\ \A i \in 1..Len(text) :
                      text[i].key = "working-directory:" =>
                          text[i].value = <<AppPath(projectDetails)>>

\* a COPY line that copies from the build context, not from a stage
CopiesFromHost(line) ==
    Len(line) >= 3 /\ line[1] = "COPY" /\ line[2] \notin FromFlags

\* a source path with the application path in front
Prefixed(source, appPath) ==
    IF source = "." THEN appPath \o "/" ELSE appPath \o "/" \o source

\* a COPY line with every source path prefixed and its destination kept
EverySourcePrefixed(line, appPath) ==
    <<"COPY">>
    \o [i \in 1..(Len(line) - 2) |-> Prefixed(line[i + 1], appPath)]
    \o <<line[Len(line)]>>

\* C18: monorepo Dockerfile rewrite.  A Dockerfile written in monorepo mode
\* is the build-context comment followed by the lines of the resolved
\* text, in which every COPY from the host has each of its source paths
\* prefixed with the application path and every other line, COPY --from
\* included, is unchanged; the comment occurs exactly once.
C18_DockerfileRewrite ==
    ("Dockerfile" \in DOMAIN rendered /\ projectDetails.monorepo) =>
        LET text == rendered["Dockerfile"].text
            source == rendered["Dockerfile"].source
            appPath == AppPath(projectDetails)
            header == MonorepoHeader(appPath)
        IN  /\ Len(text) = Len(header) + Len(source)
            /\ SubSeq(text, 1, Len(header)) = header
            /\ Cardinality({ i \in 1..Len(text) : text[i] = header[1] }) = 1
            /\ \A i \in 1..Len(source) :
                  text[Len(header) + i] =
                      IF CopiesFromHost(source[i])
                      THEN EverySourcePrefixed(source[i], appPath)
                      ELSE source[i]

\* the placeholders of a workflow template
Placeholders ==
    { "{{ projectName }}", "{{ awsRegion }}", "{{ gcpProjectId }}",
      "{{ gcpRegion }}", "{{ appPath }}" }

\* C19: rewrite skipped when monorepo is false.  Without monorepo the
\* Dockerfile written is the resolved text unchanged, and the workflow
\* written has the lines of its template, each with its indentation, key
\* and words, only the placeholders being filled in: no name prefix, no
\* path filters, no working-directory lines, no build-context change; and
\* the workflow is deploy.yml.
C19_NoRewriteWithoutMonorepo ==
    ~projectDetails.monorepo =>
        /\ "Dockerfile" \in DOMAIN rendered =>
              rendered["Dockerfile"].text = rendered["Dockerfile"].source
        /\ DOMAIN rendered \cap WorkflowPaths \subseteq {".github/workflows/deploy.yml"}
        /\ \A p \in DOMAIN rendered \cap WorkflowPaths :
              LET text == rendered[p].text
                  source == rendered[p].source
              IN  /\ Len(text) = Len(source)
                  /\ \A i \in 1..Len(source) :
                        /\ text[i].indent = source[i].indent
                        /\ text[i].dash = source[i].dash
                        /\ text[i].key = source[i].key
                        /\ Len(text[i].value) = Len(source[i].value)
                        /\ \A j \in 1..Len(source[i].value) :
                              \/ text[i].value[j] = source[i].value[j]
                              \/ source[i].value[j] \in Placeholders

\* C19 witness: a run without monorepo has returned with a Dockerfile made
\* from a template with a COPY from the host, and with deploy.yml made from
\* the template that has a docker build line.
C19_Witness ==
    /\ pc = "done"
    /\ error = NoError
    /\ ~projectDetails.monorepo
    /\ "Dockerfile" \in DOMAIN rendered
    /\ rendered["Dockerfile"].source \in DockerTemplates
    /\ ".github/workflows/deploy.yml" \in DOMAIN rendered
    /\ \E i \in 1..Len(rendered[".github/workflows/deploy.yml"].text) :
          rendered[".github/workflows/deploy.yml"].text[i].value
              = <<"docker", "build", "-t", projectDetails.projectName, ".">>

\* application paths that are empty or name the repository root
RootPaths == { "", ".", "./" }

\* C20: empty application path.  When monorepo is requested and the
\* application path is empty or the repository root, the files are written
\* as without monorepo: the Dockerfile is the resolved text unchanged, and
\* the workflow is deploy.yml with no line added to its template.
C20_EmptyAppPath ==
    (projectDetails.monorepo /\ pc # "idle"
       /\ AppPath(projectDetails) \in RootPaths) =>
        /\ "Dockerfile" \in DOMAIN rendered =>
              rendered["Dockerfile"].text = rendered["Dockerfile"].source
        /\ DOMAIN rendered \cap WorkflowPaths \subseteq {".github/workflows/deploy.yml"}
        /\ \A p \in DOMAIN rendered \cap WorkflowPaths :
              Len(rendered[p].text) = Len(rendered[p].source)

-----------------------------------------------------------------------------
(* Claims about the last dispatch step and the augmentation tokens *)

\* positions in calls of the writes of a path that were made
WritesOf(path) ==
    { k \in WriteCalls : calls[k][2] = path /\ calls[k][3] = "ok" }

\* C21: step 4 always runs.  Whenever injectDeployConfig has ended without
\* throwing, whatever the features list: addDeploymentSpecificFiles ran
\* once, README.md was written exactly once and is in the tree, and
\* vercel.json was written (once) exactly when the deploy target is vercel.
C21_StepFourAlwaysRuns ==
    PositionsOf(StageEvent("injectDeployConfig", "end")) # {} =>
        /\ Cardinality(StepCalls("addDeploymentSpecificFiles")) = 1
        /\ Cardinality(WritesOf("README.md")) = 1
        /\ "README.md" \in DOMAIN fs
        /\ Cardinality(WritesOf("vercel.json")) =
              (IF projectDetails.deployTarget = "vercel" THEN 1 ELSE 0)
        /\ "vercel.json" \in DOMAIN fs <=> projectDetails.deployTarget = "vercel"

\* C21 witness: a call with an empty features list for vercel has returned
\* with README.md and vercel.json.
C21_Witness ==
    /\ pc = "done"
    /\ entry = "inject"
    /\ error = NoError
    /\ projectDetails.features = {}
    /\ projectDetails.deployTarget = "vercel"
    /\ WritesOf("README.md") # {}
    /\ WritesOf("vercel.json") # {}

\* C22: token splitting.  Every token the loop has passed was split on its
\* first colon only: the category is the text before the first colon and
\* the type is the entire remainder after it, and a category handler
\* invoked for the token was given that remainder as its type.
C22_FirstColonSplit ==
    \A j \in 1..Len(augmentations) :
        Processed(j) =>
            /\ ParseAugmentation(augmentations[j]).category = CategoryOf(augmentations[j])
            /\ ParseAugmentation(augmentations[j]).type = TypeOf(augmentations[j])
            /\ \A k \in HandlerCallsAt(j) : calls[k][6] = TypeOf(augmentations[j])

\* the type is a key of the dispatch table of the handler
InTable(handler, type) ==
    Len(type) = 1 /\ type[1] \in DOMAIN SetupsOf(handler)

\* C23: known category with unknown type.  For every token the loop has
\* passed whose category is one of the four and whose type (as the
\* dispatcher received it) is not a key of that category's table: the
\* category dispatcher was invoked once and rejected, no setup function was
\* invoked for the token, the error "Unknown <category> type" was caught
\* and logged for the token, no error is in flight, and a run that has
\* returned has walked the whole list.
C23_UnknownType ==
    \A j \in 1..Len(augmentations) :
        LET parsed == ParseAugmentation(augmentations[j])
            handler == SwitchCategory(parsed.category)
        IN  (/\ Processed(j)
             /\ parsed.category \in KnownCategories
             /\ ~InTable(handler, parsed.type)) =>
                /\ Cardinality(HandlerCallsAt(j)) = 1
                /\ \A k \in HandlerCallsAt(j) : calls[k][7] = "rejected"
                /\ SetupCallsAt(j) = {}
                /\ \E l \in 1..Len(logged) :
                      logged[l] = <<"error", "Failed to add", augmentations[j],
                                    <<"Error", "Unknown type", handler, parsed.type>>>>
                /\ error = NoError
                /\ pc = "done" => augIdx = Len(augmentations) + 1

\* positions in calls of what the augmentation routines did
RoutineCalls ==
    { k \in 1..Len(calls) : calls[k][1] \in {"handler", "setup", "exec"} }

\* C28: module loading is outside the continue-on-error scope.  A category
\* handler or setup routine is invoked only with all four modules loaded;
\* and when the import of a module has failed, processAugmentations has
\* rejected with that error without entering its loop: no handler and no
\* setup routine was invoked and nothing was logged for a token, also for
\* tokens whose own module was loaded.
C28_LoadBeforeProcessing ==
    /\ (RoutineCalls # {} \/ pc = "aug_loop" \/ augIdx > 0) =>
          \A h \in Handlers : modules[h]
    /\ (\E h \in Handlers : ~modules[h]) /\ pc = "done" =>
          /\ error # NoError
          /\ error[1] = "ImportError"
          /\ ~modules[error[2]]
          /\ RoutineCalls = {}
          /\ logged = <<>>
          /\ augIdx = 0

\* C28 witness: the import of the monitoring module failed after the
\* database module was loaded, and the call for database:postgres has
\* rejected with nothing invoked.
C28_Witness ==
    /\ pc = "done"
    /\ entry = "aug"
    /\ error = <<"ImportError", "setupMonitoring">>
    /\ modules["setupDatabase"]
    /\ Len(augmentations) >= 1
    /\ augmentations[1] = <<"database", ":", "postgres">>
    /\ RoutineCalls = {}

-----------------------------------------------------------------------------
(* Claims about rendering, frameworks and the order of the stages *)

\* the placeholders filled from the deploy configuration, and their keys
DeployConfigPlaceholders ==
    ("{{ awsRegion }}" :> "awsRegion") @@ ("{{ gcpProjectId }}" :> "gcpProjectId") @@
    ("{{ gcpRegion }}" :> "gcpRegion")

\* C24: missing-key tolerance.  In a workflow written for a deploy
\* configuration that has no awsRegion, gcpProjectId or gcpRegion, every
\* placeholder of these keys is replaced by the empty string (the lines of
\* a workflow written without monorepo are those of its template, so the
\* words are compared in place), and no error was raised by the rendering.
C24_MissingKeyTolerance ==
    \A p \in DOMAIN rendered \cap WorkflowPaths :
        ~projectDetails.monorepo =>
            LET text == rendered[p].text
                source == rendered[p].source
            IN  /\ Len(text) = Len(source)
                /\ \A i \in 1..Len(source) :
                      /\ Len(text[i].value) = Len(source[i].value)
                      /\ \A j \in 1..Len(source[i].value) :
                            (/\ source[i].value[j] \in DOMAIN DeployConfigPlaceholders
                             /\ projectDetails.deployConfig[
                                    DeployConfigPlaceholders[source[i].value[j]]] = Missing)
                               => text[i].value[j] = ""
                /\ error # NoError => error[1] # "TypeError"

\* wrapFrameworkCommand has been called and is over
WrapOver ==
    \/ PositionsOf(StageEvent("wrapFrameworkCommand", "end")) # {}
    \/ PositionsOf(StageEvent("wrapFrameworkCommand", "throw")) # {}

\* C25: unsupported framework.  When wrapFrameworkCommand was called for a
\* framework other than nextjs, nuxtjs and remix, it has rejected with the
\* error "Framework <name> is not supported", and the generator command
\* was never executed.
C25_UnsupportedFramework ==
    (entry = "cli" /\ WrapOver /\ projectDetails.framework \notin Frameworks) =>
        /\ error = <<"Error", "Framework", projectDetails.framework, "is not supported">>
        /\ ExecCalls = {}
        /\ PositionsOf(StageEvent("wrapFrameworkCommand", "end")) = {}

\* positions in calls of the initial commit
CommitCalls ==
    { k \in ExecCalls : calls[k][2] = "git" /\ calls[k][3] = "commit" }

\* C29: the initial commit comes last.  Whenever the initial commit was
\* created, post-processing, the augmentations and injectDeployConfig had
\* all ended before it, no scaffolding write was made after it, and every
\* file of the tree of a run that has ended is among the committed ones.
C29_CommitAfterScaffolding ==
    \A k \in CommitCalls :
        /\ \E m \in PositionsOf(StageEvent("processProject", "start")) : m < k
        /\ \A m \in 1..Len(calls) : calls[m][1] \in {"handler", "setup"} => m < k
        /\ \E m \in PositionsOf(StageEvent("injectDeployConfig", "end")) : m < k
        /\ \A m \in WriteCalls : m < k
        /\ pc = "done" => DOMAIN fs \subseteq calls[k][4]

\* C30: spinner lifecycle.  At most one spinner is active at a time; once
\* processProject or injectDeployConfig has returned or thrown no spinner
\* is left active; and the last stopSpinner of processProject finds a live
\* spinner.
C30_SpinnerLifecycle ==
    /\ Cardinality(spinning) <= 1
    /\ pc \in {"inject", "cli_success", "cli_catch", "done"} => spinning = {}
    /\ pc = "process_end" => spinner # 0

-----------------------------------------------------------------------------
(* Claims about the post-processor loader *)

\* positions in calls of the loadProcessor calls
LoadCalls == { k \in 1..Len(calls) : calls[k][1] = "load" }

\* positions in calls of the process calls
PostProcessCalls == { k \in 1..Len(calls) : calls[k][1] = "postprocess" }

\* the last position of a set of positions
Last(S) == CHOOSE k \in S : \A m \in S : m <= k

\* C26: post-processor dispatch fallback.  Every loadProcessor call has
\* returned a processor: the framework-specific one when the module was
\* imported with a default export, a BasePostProcessor when the import
\* failed or had no default export (with a warning logged); the processor
\* is made for the framework, path and details of the call; and the last
\* processor loaded for a framework is the one recorded under its key
\* (until clear()).  A load by itself raises no error.
C26_LoaderFallback ==
    /\ \A k \in LoadCalls :
          LET framework == calls[k][2]
              outcome == calls[k][3]
              processor == calls[k][4]
          IN  /\ processor.kind = (IF outcome = "ok" THEN "framework" ELSE "base")
              /\ processor.framework = framework
              /\ outcome # "ok" =>
                    \E l \in 1..Len(logged) :
                        logged[l] = <<"warn", "Failed to load post-processor",
                                      framework>>
    /\ \A f \in DOMAIN processors :
          /\ \E k \in LoadCalls : calls[k][2] = f
          /\ processors[f] = calls[Last({ k \in LoadCalls : calls[k][2] = f })][4]
    /\ (LoadCalls # {} /\ PostProcessCalls = {}) => error = NoError

\* C26 witness: loadProcessor for a framework whose module could not be
\* imported has returned a BasePostProcessor, recorded under the framework.
C26_Witness ==
    /\ pc = "loader"
    /\ error = NoError
    /\ UnsupportedFramework \in DOMAIN processors
    /\ processors[UnsupportedFramework].kind = "base"
    /\ \E k \in LoadCalls : calls[k][3] = "missing" /\ calls[k][5]

\* C27: process uses the arguments of the call.  Every call
\* process(framework, P, D) has run the post-processing of a processor
\* whose project path is P and whose project details are D, and its
\* directories were made under P.
C27_ProcessUsesCallArguments ==
    \A k \in PostProcessCalls :
        /\ calls[k][5].projectPath = calls[k][3]
        /\ calls[k][5].projectDetails = calls[k][4]
        /\ calls[k][5].framework = calls[k][2]

====
